---------------------------- MODULE Spec2Model ----------------------------
(***************************************************************************)
(* ASGITrackingMiddleware (src/server.py): the response-lifecycle tracker  *)
(* that sits between an ASGI server's transport and the wrapped app.       *)
(*                                                                         *)
(* One request is one call of ASGITrackingMiddleware.__call__.  The        *)
(* wrapped app and the transport's send are the environment: the app may   *)
(* send any message in any order, return, raise or be cancelled at a       *)
(* suspension point; the transport's send may return or raise.             *)
(* The steps of a request are cut at the awaits of the code: everything    *)
(* between two awaits is one action.                                       *)
(***************************************************************************)
EXTENDS Naturals, Sequences, FiniteSets

(* Requests handled by one middleware instance, possibly concurrently. *)
Reqs == {1, 2}

(* Messages one app passes to its send callable, over its whole life. *)
MaxMsgs == 2

(* scope["type"] values of ASGI connections. *)
ScopeTypes == {"http", "websocket", "lifespan"}

(* scope.get("path", "") of each request. *)
PathOf(r) == IF r = 1 THEN "/mcp" ELSE ""

(* Message types: the two the tracker looks at, and one it does not. *)
StartType == "http.response.start"
BodyType  == "http.response.body"
OtherType == "http.response.trailers"

(* message.get("more_body", False): an absent key reads as FALSE. *)
Messages ==
  {[type |-> StartType, more_body |-> FALSE],
   [type |-> BodyType,  more_body |-> TRUE],
   [type |-> BodyType,  more_body |-> FALSE],
   [type |-> OtherType, more_body |-> FALSE]}

(* How a coroutine ends. *)
Signals == {"return", "error", "cancel"}

VARIABLES
  pc,               \* where each request is: new, app, in_send, done
  scope_type,       \* scope["type"] of the call ("none" before the call)
  has_state,        \* response_started, body_sent and path were created
  app_send,         \* the send callable handed to the app
  app_calls,        \* how many times self.app was called
  response_started, \* the closure variable of the request
  body_sent,        \* the closure variable of the request
  emitted,          \* messages the app passed to its send callable
  send_calls,       \* messages the transport's send was called with
  last_send,        \* how the latest call of the transport's send ended
  log,              \* records the request's call gave to the logger
  exit_len,         \* Len(emitted) when the app call ended
  app_signal,       \* how the app call ended
  out_signal,       \* how __call__ ended
  classify_count    \* times the finally block ran

vars == <<pc, scope_type, has_state, app_send, app_calls, response_started,
          body_sent, emitted, send_calls, last_send, log, exit_len,
          app_signal, out_signal, classify_count>>

Init ==
  /\ pc = [r \in Reqs |-> "new"]
  /\ scope_type = [r \in Reqs |-> "none"]
  /\ has_state = [r \in Reqs |-> FALSE]
  /\ app_send = [r \in Reqs |-> "none"]
  /\ app_calls = [r \in Reqs |-> 0]
  /\ response_started = [r \in Reqs |-> FALSE]
  /\ body_sent = [r \in Reqs |-> FALSE]
  /\ emitted = [r \in Reqs |-> <<>>]
  /\ send_calls = [r \in Reqs |-> <<>>]
  /\ last_send = [r \in Reqs |-> "none"]
  /\ log = [r \in Reqs |-> <<>>]
  /\ exit_len = [r \in Reqs |-> 0]
  /\ app_signal = [r \in Reqs |-> "none"]
  /\ out_signal = [r \in Reqs |-> "none"]
  /\ classify_count = [r \in Reqs |-> 0]

-----------------------------------------------------------------------------
(* Variant: only lifespan connections pass through. *)
IsTrackedNotLifespan(ty) == ty # "lifespan"

(* if scope["type"] != "http": pass through; otherwise track. *)
IsTracked(ty) == ty = "http"

(* __call__ up to its first await: the non-http branch hands the app the
   original send; the http branch creates the lifecycle state and hands the
   app tracking_send. *)
Call(r, ty) ==
  /\ pc[r] = "new"
  /\ pc' = [pc EXCEPT ![r] = "app"]
  /\ scope_type' = [scope_type EXCEPT ![r] = ty]
  /\ app_calls' = [app_calls EXCEPT ![r] = @ + 1]
  /\ IF IsTracked(ty)
       THEN /\ has_state' = [has_state EXCEPT ![r] = TRUE]
            /\ response_started' = [response_started EXCEPT ![r] = FALSE]
            /\ body_sent' = [body_sent EXCEPT ![r] = FALSE]
            /\ app_send' = [app_send EXCEPT ![r] = "tracking_send"]
       ELSE /\ app_send' = [app_send EXCEPT ![r] = "send"]
            /\ UNCHANGED <<has_state, response_started, body_sent>>
  /\ UNCHANGED <<emitted, send_calls, last_send, log, exit_len, app_signal,
                 out_signal, classify_count>>


-----------------------------------------------------------------------------
(* tracking_send, the part before its await. *)

(* Variant: the start branch compares with a type no message has, so it
   is never taken. *)
ObserveStartMistyped(started, m) == started

(* if msg_type == "http.response.start": response_started = True *)
ObserveStart(started, m) == IF m.type = StartType THEN TRUE ELSE started

(* Variant: only a final body (more_body false) counts as a body. *)
ObserveBodyOnlyFinal(sent, m) ==
  IF m.type = BodyType /\ ~m.more_body THEN TRUE ELSE sent

(* elif msg_type == "http.response.body": body_sent = True, whatever
   more_body says. *)
ObserveBody(sent, m) == IF m.type = BodyType THEN TRUE ELSE sent

(* The logger.debug line of each branch; other types log nothing. *)
SendRecords(path, m) ==
  IF m.type = StartType
    THEN <<[level |-> "debug", event |-> "start", path |-> path]>>
    ELSE IF m.type = BodyType
      THEN <<[level |-> "debug", event |-> "body", path |-> path]>>
      ELSE <<>>

(* Variant: send is called inside the two branches only. *)
ForwardTrackedTypes(calls, m) ==
  IF m.type \in {StartType, BodyType} THEN Append(calls, m) ELSE calls

(* await send(message): send is called with the message object it got,
   outside the if/elif, so for every type. *)
Forward(calls, m) == Append(calls, m)

(* Variant: the two flags are kept on the middleware instance, which all
   requests share, instead of in the call's own closure. *)
ObservedShared(r, m) ==
  /\ response_started' =
       [q \in Reqs |-> ObserveStart(response_started[q], m)]
  /\ body_sent' = [q \in Reqs |-> ObserveBody(body_sent[q], m)]
  /\ log' = [log EXCEPT ![r] = @ \o SendRecords(PathOf(r), m)]
  /\ emitted' = [emitted EXCEPT ![r] = Append(@, m)]
  /\ send_calls' = [send_calls EXCEPT ![r] = Forward(@, m)]

(* One call of tracking_send(m) up to the point where send suspends. *)
Observed(r, m) ==
  /\ response_started' =
       [response_started EXCEPT ![r] = ObserveStart(@, m)]
  /\ body_sent' = [body_sent EXCEPT ![r] = ObserveBody(@, m)]
  /\ log' = [log EXCEPT ![r] = @ \o SendRecords(PathOf(r), m)]
  /\ emitted' = [emitted EXCEPT ![r] = Append(@, m)]
  /\ send_calls' = [send_calls EXCEPT ![r] = Forward(@, m)]

(* The app, running inside await self.app(scope, receive, tracking_send),
   calls tracking_send(m). *)
TrackingSend(r, m) ==
  /\ pc[r] = "app"
  /\ app_send[r] = "tracking_send"
  /\ Len(emitted[r]) < MaxMsgs
  /\ Observed(r, m)
  /\ last_send' = [last_send EXCEPT ![r] = "pending"]
  /\ pc' = [pc EXCEPT ![r] = "in_send"]
  /\ UNCHANGED <<scope_type, has_state, app_send, app_calls, exit_len,
                 app_signal, out_signal, classify_count>>

(* The app of a non-http connection calls the original send: the
   middleware is not on the path, and what the transport does with the
   message is not its business. *)
RawSend(r, m) ==
  /\ pc[r] = "app"
  /\ app_send[r] = "send"
  /\ Len(emitted[r]) < MaxMsgs
  /\ emitted' = [emitted EXCEPT ![r] = Append(@, m)]
  /\ send_calls' = [send_calls EXCEPT ![r] = Append(@, m)]
  /\ UNCHANGED <<pc, scope_type, has_state, app_send, app_calls,
                 response_started, body_sent, last_send, log, exit_len,
                 app_signal, out_signal, classify_count>>

(* The transport's send returns: the message was accepted. *)
SendReturn(r) ==
  /\ pc[r] = "in_send"
  /\ last_send' = [last_send EXCEPT ![r] = "returned"]
  /\ pc' = [pc EXCEPT ![r] = "app"]
  /\ UNCHANGED <<scope_type, has_state, app_send, app_calls,
                 response_started, body_sent, emitted, send_calls, log,
                 exit_len, app_signal, out_signal, classify_count>>

(* Variant: the flags are set after the await of send, so a send that
   raises leaves them as they were before the call. *)
SendRaiseUnrecorded(r) ==
  /\ pc[r] = "in_send"
  /\ last_send' = [last_send EXCEPT ![r] = "raised"]
  /\ pc' = [pc EXCEPT ![r] = "app"]
  /\ response_started' = [response_started EXCEPT ![r] =
       \E i \in 1..(Len(emitted[r]) - 1) : emitted[r][i].type = StartType]
  /\ body_sent' = [body_sent EXCEPT ![r] =
       \E i \in 1..(Len(emitted[r]) - 1) : emitted[r][i].type = BodyType]
  /\ UNCHANGED <<scope_type, has_state, app_send, app_calls, emitted,
                 send_calls, log, exit_len, app_signal, out_signal,
                 classify_count>>

(* The transport's send raises (the client is gone): the exception reaches
   the app, which may handle it or let it propagate. *)
SendRaise(r) ==
  /\ pc[r] = "in_send"
  /\ last_send' = [last_send EXCEPT ![r] = "raised"]
  /\ pc' = [pc EXCEPT ![r] = "app"]
  /\ UNCHANGED <<scope_type, has_state, app_send, app_calls,
                 response_started, body_sent, emitted, send_calls,
                 log, exit_len, app_signal, out_signal, classify_count>>

-----------------------------------------------------------------------------
(* Variant: the two branches test body_sent the wrong way round. *)
FinallyRecordsSwapped(path, started, sent) ==
  IF started /\ sent
    THEN <<[level |-> "error", event |-> "violation", path |-> path]>>
    ELSE IF started /\ ~sent
      THEN <<[level |-> "debug", event |-> "clean", path |-> path]>>
      ELSE <<>>

(* Variant: the violation branch forgets to test response_started. *)
FinallyRecordsNoStartTest(path, started, sent) ==
  IF ~sent
    THEN <<[level |-> "error", event |-> "violation", path |-> path]>>
    ELSE IF started /\ sent
      THEN <<[level |-> "debug", event |-> "clean", path |-> path]>>
      ELSE <<>>

(* Variant: the records are not tagged with the request's path. *)
FinallyRecordsUntagged(path, started, sent) ==
  IF started /\ ~sent
    THEN <<[level |-> "error", event |-> "violation", path |-> "?"]>>
    ELSE IF started /\ sent
      THEN <<[level |-> "debug", event |-> "clean", path |-> "?"]>>
      ELSE <<>>

(* Variant: the finally block has the violation branch only; a request
   never gets the completed-correctly record. *)
FinallyRecordsNeverClean(path, started, sent) ==
  IF started /\ ~sent
    THEN <<[level |-> "error", event |-> "violation", path |-> path]>>
    ELSE <<>>

(* The finally block: the records it gives the logger. *)
FinallyRecords(path, started, sent) ==
  IF started /\ ~sent
    THEN <<[level |-> "error", event |-> "violation", path |-> path]>>
    ELSE IF started /\ sent
      THEN <<[level |-> "debug", event |-> "clean", path |-> path]>>
      ELSE <<>>

(* The app can return or raise while it runs; a cancellation is delivered
   at a suspension point, the app's own or the one inside send. *)
CanExit(r, sig) ==
  \/ pc[r] = "app"
  \/ pc[r] = "in_send" /\ sig = "cancel"

(* The shape shared by AppExit and its variants: the app call ends with
   sig, the check runs or not, and __call__ ends with out. *)
ExitWith(r, sig, runs, out) ==
  /\ app_send[r] = "tracking_send"
  /\ CanExit(r, sig)
  /\ app_signal' = [app_signal EXCEPT ![r] = sig]
  /\ exit_len' = [exit_len EXCEPT ![r] = Len(emitted[r])]
  /\ log' = [log EXCEPT ![r] =
       IF runs
         THEN @ \o FinallyRecords(PathOf(r), response_started[r], body_sent[r])
         ELSE @]
  /\ classify_count' = [classify_count EXCEPT ![r] = IF runs THEN @ + 1 ELSE @]
  /\ out_signal' = [out_signal EXCEPT ![r] = out]
  /\ pc' = [pc EXCEPT ![r] = "done"]
  /\ UNCHANGED <<scope_type, has_state, app_send, app_calls,
                 response_started, body_sent, emitted, send_calls, last_send>>

(* Variant: the check is a plain statement after the await, so it runs only
   when the app returns. *)
AppExitNoFinally(r, sig) == ExitWith(r, sig, sig = "return", sig)

(* Variant: the check sits in `except Exception`, which a CancelledError
   passes by. *)
AppExitMissesCancel(r, sig) == ExitWith(r, sig, sig # "cancel", sig)

(* Variant: a return inside the finally block swallows what was raised. *)
AppExitReturnInFinally(r, sig) == ExitWith(r, sig, TRUE, "return")

(* try: await self.app(...) finally: ...  The app call ends with sig; the
   finally block runs and sig continues out of __call__. *)
AppExit(r, sig) == ExitWith(r, sig, TRUE, sig)

(* await self.app(scope, receive, send); return *)
PassThroughExit(r, sig) ==
  /\ app_send[r] = "send"
  /\ CanExit(r, sig)
  /\ app_signal' = [app_signal EXCEPT ![r] = sig]
  /\ exit_len' = [exit_len EXCEPT ![r] = Len(emitted[r])]
  /\ out_signal' = [out_signal EXCEPT ![r] = sig]
  /\ pc' = [pc EXCEPT ![r] = "done"]
  /\ UNCHANGED <<scope_type, has_state, app_send, app_calls,
                 response_started, body_sent, emitted, send_calls, last_send,
                 log, classify_count>>

-----------------------------------------------------------------------------
(* The client side (src/client.py, src/client_fast_disconnect.py) and the  *)
(* end-to-end scenarios have their own variables.  Each specification      *)
(* moves one group and leaves the others at rest.                          *)

VARIABLES
  rn_variant,   \* which runner runs: quick, delayed, ultra, rapid
  rn_delay,     \* delay_ms of delayed_disconnect_test
  rn_pc,        \* where the runner is
  rn_log,       \* records the runner (and its task) gave to the logger
  rn_out,       \* how the runner ended: return or raise
  rn_exc,       \* the exception raised inside the runner, if any
  task,         \* the request task of ultra_fast_disconnect
  task_exc,     \* the exception the task ended with, if any
  task_cancels  \* cancellations requested of the task

rn_vars == <<rn_variant, rn_delay, rn_pc, rn_log, rn_out, rn_exc, task,
             task_exc, task_cancels>>

VARIABLES
  inst,         \* the burst's instances: pending, returned, raised
  gather,       \* the await of asyncio.gather: waiting, returned, raised
  results       \* the list gather returns

bu_vars == <<inst, gather, results>>

VARIABLES
  sc_strategy,  \* the client's strategy: immediate or delayed
  sc_delay,     \* the delayed client's delay_ms
  sc_handler,   \* the handler the request reaches: fast or slow
  now,          \* the clock, in ms
  cl_pc,        \* the client: connecting, got_headers, closed
  cl_how,       \* how the client ended: close or timeout
  cl_close_at,  \* when the client closes after the headers
  body_due      \* when the handler has its first body ready

sc_vars == <<sc_strategy, sc_delay, sc_handler, now, cl_pc, cl_how,
             cl_close_at, body_due>>

all_vars == <<vars, rn_vars, bu_vars, sc_vars>>

(* No runner is running. *)
RunnerIdle ==
  /\ rn_variant = "none"
  /\ rn_delay = 0
  /\ rn_pc = "none"
  /\ rn_log = <<>>
  /\ rn_out = "none"
  /\ rn_exc = "none"
  /\ task = "none"
  /\ task_exc = "none"
  /\ task_cancels = 0

(* No burst is running. *)
BurstIdle ==
  /\ inst = <<>>
  /\ gather = "none"
  /\ results = <<>>

(* No scenario is running. *)
ScenarioIdle ==
  /\ sc_strategy = "none"
  /\ sc_delay = 0
  /\ sc_handler = "none"
  /\ now = 0
  /\ cl_pc = "none"
  /\ cl_how = "none"
  /\ cl_close_at = 0
  /\ body_due = 0

(* The server alone, with any app behind the middleware. *)
ServerInit == Init /\ RunnerIdle /\ BurstIdle /\ ScenarioIdle

Next ==
  \E r \in Reqs :
    \/ \E ty \in ScopeTypes : Call(r, ty)
    \/ \E m \in Messages : TrackingSend(r, m)
    \/ \E m \in Messages : RawSend(r, m)
    \/ SendReturn(r)
    \/ SendRaise(r)
    \/ \E sig \in Signals : AppExit(r, sig)
    \/ \E sig \in Signals : PassThroughExit(r, sig)

(* The client side stays at rest. *)
ClientAtRest == UNCHANGED <<rn_vars, bu_vars, sc_vars>>

(* The steps of one connection, with the client side at rest. *)
ServerStep(r) ==
  \/ \E ty \in ScopeTypes : Call(r, ty) /\ ClientAtRest
  \/ \E m \in Messages : TrackingSend(r, m) /\ ClientAtRest
  \/ \E m \in Messages : RawSend(r, m) /\ ClientAtRest
  \/ SendReturn(r) /\ ClientAtRest
  \/ SendRaise(r) /\ ClientAtRest
  \/ \E sig \in Signals : AppExit(r, sig) /\ ClientAtRest
  \/ \E sig \in Signals : PassThroughExit(r, sig) /\ ClientAtRest

(* Next, with the client side at rest. *)
ServerNext == \E r \in Reqs : ServerStep(r)

Spec == ServerInit /\ [][ServerNext]_all_vars

(* Variant: the closure ignores what it is given once the call has ended. *)
LateSendIgnored(r, m) ==
  /\ pc[r] = "done"
  /\ app_send[r] = "tracking_send"
  /\ Len(emitted[r]) < MaxMsgs
  /\ emitted' = [emitted EXCEPT ![r] = Append(@, m)]
  /\ UNCHANGED <<pc, scope_type, has_state, app_send, app_calls,
                 response_started, body_sent, send_calls, last_send, log,
                 exit_len, app_signal, out_signal, classify_count>>

(* tracking_send outlives the call: a task the app left behind still holds
   the closure and calls it after __call__ has ended.  Nothing stops the
   closure from updating the state and forwarding. *)
LateSend(r, m) ==
  /\ pc[r] = "done"
  /\ app_send[r] = "tracking_send"
  /\ Len(emitted[r]) < MaxMsgs
  /\ Observed(r, m)
  /\ last_send' = [last_send EXCEPT ![r] = "pending"]
  /\ UNCHANGED <<pc, scope_type, has_state, app_send, app_calls, exit_len,
                 app_signal, out_signal, classify_count>>

(* The requests together with the sends that come after their end. *)
NextLate ==
  \/ Next
  \/ \E r \in Reqs : \E m \in Messages : LateSend(r, m)

(* One connection on its own, whose app calls tracking_send after the end
   of its call as well. *)
ServerNextLate ==
  \/ ServerStep(1)
  \/ \E m \in Messages : LateSend(1, m) /\ ClientAtRest

SpecLate == ServerInit /\ [][ServerNextLate]_all_vars

TypeOK ==
  /\ pc \in [Reqs -> {"new", "app", "in_send", "done"}]
  /\ scope_type \in [Reqs -> ScopeTypes \cup {"none"}]
  /\ has_state \in [Reqs -> BOOLEAN]
  /\ app_send \in [Reqs -> {"none", "send", "tracking_send"}]
  /\ response_started \in [Reqs -> BOOLEAN]
  /\ body_sent \in [Reqs -> BOOLEAN]
  /\ \A r \in Reqs :
       /\ Len(emitted[r]) <= MaxMsgs
       /\ \A i \in 1..Len(emitted[r]) : emitted[r][i] \in Messages
       /\ last_send[r] \in {"none", "pending", "returned", "raised"}
       /\ app_signal[r] \in Signals \cup {"none"}
       /\ out_signal[r] \in Signals \cup {"none"}

-----------------------------------------------------------------------------
(* Derived views of a request: what it sent before it ended, and what was
   logged for it. *)

(* The messages the app had passed to its send callable when it ended. *)
Obs(r) == SubSeq(emitted[r], 1, exit_len[r])

HasType(seq, t) == \E i \in 1..Len(seq) : seq[i].type = t

StartThenBody(seq) ==
  \E i, j \in 1..Len(seq) :
    i < j /\ seq[i].type = StartType /\ seq[j].type = BodyType

TypesOf(seq) == [i \in 1..Len(seq) |-> seq[i].type]

(* An HTTP request whose call has ended. *)
Ended(r) == pc[r] = "done" /\ scope_type[r] = "http"

IsViolationRecord(rec) == rec.event = "violation"
IsCleanRecord(rec) == rec.event = "clean"
IsClassRecord(rec) == rec.event \in {"violation", "clean"}

ViolationRecords(r) == SelectSeq(log[r], IsViolationRecord)
CleanRecords(r) == SelectSeq(log[r], IsCleanRecord)
ClassRecords(r) == SelectSeq(log[r], IsClassRecord)

(* The classification a request's records stand for. *)
Classification(r) ==
  IF Len(ViolationRecords(r)) > 0 THEN "Violation"
  ELSE IF Len(CleanRecords(r)) > 0 THEN "Clean"
  ELSE "Idle"

-----------------------------------------------------------------------------
(* C1: an HTTP request whose app sent a start and ended, by return, error
   or cancellation, with no body sent has the violation record emitted
   (once), and no completed-correctly record. *)
C1_StartNoBodyIsViolation ==
  \A r \in Reqs :
    (Ended(r) /\ HasType(Obs(r), StartType) /\ ~HasType(Obs(r), BodyType))
      => /\ Len(ViolationRecords(r)) = 1
         /\ ViolationRecords(r)[1].level = "error"
         /\ Len(CleanRecords(r)) = 0

(* A request cancelled inside the send of its start, its only message. *)
C1_Witness ==
  \E r \in Reqs :
    /\ Ended(r)
    /\ TypesOf(Obs(r)) = <<StartType>>
    /\ app_signal[r] = "cancel"
    /\ last_send[r] = "pending"

(* C2: an HTTP request whose app sent a start and then at least one body,
   with more_body true or false, has the completed-correctly record emitted
   when the app ends, and no violation record. *)
C2_StartThenBodyIsClean ==
  \A r \in Reqs :
    (Ended(r) /\ StartThenBody(Obs(r)))
      => /\ Len(CleanRecords(r)) = 1
         /\ Len(ViolationRecords(r)) = 0

(* A request that sent a start and one partial body and then raised. *)
C2_Witness ==
  \E r \in Reqs :
    /\ Ended(r)
    /\ Obs(r) = <<[type |-> StartType, more_body |-> FALSE],
                  [type |-> BodyType, more_body |-> TRUE]>>
    /\ app_signal[r] = "error"

(* C3: an HTTP request whose app never sent a start before it ended has
   neither a violation record nor a completed-correctly record, whatever
   else it sent. *)
C3_NoStartIsIdle ==
  \A r \in Reqs :
    (Ended(r) /\ ~HasType(Obs(r), StartType))
      => /\ Len(ViolationRecords(r)) = 0
         /\ Len(CleanRecords(r)) = 0

(* A request that sent a body and another message, but no start. *)
C3_Witness ==
  \E r \in Reqs :
    /\ Ended(r)
    /\ HasType(Obs(r), BodyType)
    /\ HasType(Obs(r), OtherType)
    /\ ~HasType(Obs(r), StartType)

(* C4: for an HTTP request the finally block has run exactly once when the
   call has ended, however the app ended, and not at all before. *)
C4_ClassifiedExactlyOnce ==
  \A r \in Reqs :
    scope_type[r] = "http"
      => classify_count[r] = (IF pc[r] = "done" THEN 1 ELSE 0)

(* One request cancelled inside send, the other ended by the exception the
   transport's send raised; both classified once. *)
C4_Witness ==
  \E r, q \in Reqs :
    /\ Ended(r) /\ app_signal[r] = "cancel" /\ last_send[r] = "pending"
    /\ Ended(q) /\ app_signal[q] = "error" /\ last_send[q] = "raised"
    /\ classify_count[r] = 1 /\ classify_count[q] = 1

(* C5: two HTTP requests whose apps sent the same sequence of message types
   get the same classification, however each app ended. *)
C5_Deterministic ==
  \A r, q \in Reqs :
    (Ended(r) /\ Ended(q) /\ TypesOf(Obs(r)) = TypesOf(Obs(q)))
      => Classification(r) = Classification(q)

(* Two requests with the same start-then-body sequence, one cancelled and
   one returned. *)
C5_Witness ==
  \E r, q \in Reqs :
    /\ Ended(r) /\ Ended(q)
    /\ TypesOf(Obs(r)) = <<StartType, BodyType>>
    /\ TypesOf(Obs(q)) = <<StartType, BodyType>>
    /\ app_signal[r] = "cancel"
    /\ app_signal[q] = "return"

(* C6: __call__ ends the way the app call ended: return as return, error as
   error, cancellation as cancellation, on both branches and for every
   classification; before that it has not ended. *)
C6_SignalPropagates ==
  \A r \in Reqs :
    /\ pc[r] = "done" => (out_signal[r] \in Signals /\ out_signal[r] = app_signal[r])
    /\ pc[r] # "done" => out_signal[r] = "none"

(* A Violation request ended by an error, and a Clean one cancelled. *)
C6_Witness ==
  \E r, q \in Reqs :
    /\ Ended(r) /\ Classification(r) = "Violation" /\ out_signal[r] = "error"
    /\ Ended(q) /\ Classification(q) = "Clean" /\ out_signal[q] = "cancel"

(* C7: for an HTTP request the transport's send has been called with
   exactly the messages the app passed to tracking_send, in the same order
   and unchanged, other types included; and every message it was called
   with is already recorded in the lifecycle state. *)
C7_PureObserver ==
  \A r \in Reqs :
    scope_type[r] = "http"
      => /\ send_calls[r] = emitted[r]
         /\ HasType(send_calls[r], StartType) => response_started[r]
         /\ HasType(send_calls[r], BodyType) => body_sent[r]

(* A request that sent a message of another type and then a body, the
   second still inside send. *)
C7_Witness ==
  \E r \in Reqs :
    /\ scope_type[r] = "http"
    /\ pc[r] = "in_send"
    /\ TypesOf(emitted[r]) = <<OtherType, BodyType>>

(* C8 as stated: every ended HTTP request has exactly one classification
   record, tagged with its path, at level error for Violation and at a
   non-error level for Clean and for Idle. *)
C8_Original ==
  \A r \in Reqs :
    Ended(r)
      => /\ Len(ClassRecords(r)) = 1
         /\ ClassRecords(r)[1].path = PathOf(r)
         /\ Classification(r) = "Violation" <=> ClassRecords(r)[1].level = "error"

(* C8 amended: an HTTP request has no classification record before it ends
   and at most one after: exactly one, tagged with its path, when a start
   was sent (error level for a violation, debug level for completed
   correctly), and none at all when no start was sent. *)
C8_OneRecordUnlessIdle ==
  \A r \in Reqs :
    /\ ~Ended(r) => Len(ClassRecords(r)) = 0
    /\ Ended(r) =>
         /\ Len(ClassRecords(r)) = (IF HasType(Obs(r), StartType) THEN 1 ELSE 0)
         /\ \A i \in 1..Len(ClassRecords(r)) :
              /\ ClassRecords(r)[i].path = PathOf(r)
              /\ ClassRecords(r)[i].level =
                   (IF ClassRecords(r)[i].event = "violation"
                      THEN "error" ELSE "debug")

(* Both requests ended, one with a violation record and one Idle with no
   record. *)
C8_Witness ==
  \E r, q \in Reqs :
    /\ Ended(r) /\ Len(ClassRecords(r)) = 1 /\ Classification(r) = "Violation"
    /\ Ended(q) /\ Len(ClassRecords(q)) = 0 /\ Len(Obs(q)) > 0

(* A final body: more_body false. *)
HasFinalBody(seq) ==
  \E i \in 1..Len(seq) : seq[i].type = BodyType /\ ~seq[i].more_body

(* C9 as stated: an ended HTTP request that sent a start and no final body
   (more_body false) has the violation record, also when it sent partial
   bodies. *)
C9_Original ==
  \A r \in Reqs :
    (Ended(r) /\ HasType(Obs(r), StartType) /\ ~HasFinalBody(Obs(r)))
      => Classification(r) = "Violation"

(* C9 amended: an ended HTTP request that sent a start is a violation
   exactly when it sent no body at all; one that sent a start and only
   partial bodies (more_body true) is reported completed correctly. *)
C9_ViolationIffNoBodyAtAll ==
  \A r \in Reqs :
    (Ended(r) /\ HasType(Obs(r), StartType))
      => /\ Classification(r) = "Violation" <=> ~HasType(Obs(r), BodyType)
         /\ (StartThenBody(Obs(r)) /\ ~HasFinalBody(Obs(r)))
              => Classification(r) = "Clean"

(* A start, then one partial body, then the app is cancelled. *)
C9_Witness ==
  \E r \in Reqs :
    /\ Ended(r)
    /\ StartThenBody(Obs(r))
    /\ ~HasFinalBody(Obs(r))
    /\ app_signal[r] = "cancel"

(* C10: for a connection that is not http the app is called once with the
   original send, no lifecycle state is created, nothing is logged and no
   check runs, whatever the app sends and however it ends. *)
C10_NonHttpPassesThrough ==
  \A r \in Reqs :
    (pc[r] # "new" /\ scope_type[r] # "http")
      => /\ app_send[r] = "send"
         /\ app_calls[r] = 1
         /\ ~has_state[r]
         /\ ~response_started[r] /\ ~body_sent[r]
         /\ log[r] = <<>>
         /\ classify_count[r] = 0
         /\ send_calls[r] = emitted[r]

(* A websocket connection whose app sent a start and no body and was then
   cancelled. *)
C10_Witness ==
  \E r \in Reqs :
    /\ pc[r] = "done"
    /\ scope_type[r] = "websocket"
    /\ TypesOf(emitted[r]) = <<StartType>>
    /\ app_signal[r] = "cancel"

-----------------------------------------------------------------------------
(* A body comes before the first start. *)
BodyBeforeStart(seq) ==
  \E i \in 1..Len(seq) :
    /\ seq[i].type = BodyType
    /\ \A j \in 1..(i - 1) : seq[j].type # StartType

(* The classification of a request that sent seq and nothing else. *)
ClassOf(seq) ==
  IF HasType(seq, StartType) /\ ~HasType(seq, BodyType) THEN "Violation"
  ELSE IF HasType(seq, StartType) /\ HasType(seq, BodyType) THEN "Clean"
  ELSE "Idle"

(* C16 as stated: in every state body_sent implies response_started, for
   every sequence of messages, a body before any start included. *)
C16_Original ==
  \A r \in Reqs : body_sent[r] => response_started[r]

(* C16 amended: body_sent implies response_started as long as the app has
   sent no body before its first start; a body sent before any start sets
   body_sent alone. *)
C16_BodyImpliesStartInOrder ==
  \A r \in Reqs :
    /\ ~BodyBeforeStart(emitted[r]) => (body_sent[r] => response_started[r])
    /\ (scope_type[r] = "http" /\ BodyBeforeStart(emitted[r])) => body_sent[r]

(* A request that sent a start and then a body: both flags set. *)
C16_Witness ==
  \E r \in Reqs :
    /\ TypesOf(emitted[r]) = <<StartType, BodyType>>
    /\ body_sent[r] /\ response_started[r]

(* C17 as stated: once an HTTP request has been classified, its lifecycle
   state shows only the messages sent before the classification, also when
   tracking_send is called after the app call has ended. *)
C17_Original ==
  \A r \in Reqs :
    Ended(r)
      => /\ response_started[r] = HasType(Obs(r), StartType)
         /\ body_sent[r] = HasType(Obs(r), BodyType)

(* C17 amended: once an HTTP request has been classified, the check does
   not run again and the record it emitted stays the one of the messages
   sent before the end; a call of tracking_send after the end is still
   observed (it sets the flags) and forwarded. *)
C17_ReportIsTerminal ==
  \A r \in Reqs :
    Ended(r)
      => /\ classify_count[r] = 1
         /\ Len(ClassRecords(r)) <= 1
         /\ Classification(r) = ClassOf(Obs(r))
         /\ response_started[r] = HasType(emitted[r], StartType)
         /\ body_sent[r] = HasType(emitted[r], BodyType)
         /\ send_calls[r] = emitted[r]

(* A request classified Violation after a start, whose body came after the
   end and set body_sent. *)
C17_Witness ==
  \E r \in Reqs :
    /\ Ended(r)
    /\ TypesOf(Obs(r)) = <<StartType>>
    /\ TypesOf(emitted[r]) = <<StartType, BodyType>>
    /\ Classification(r) = "Violation"
    /\ body_sent[r]

(* C18: with two requests interleaved in any way, each request's flags are
   those of its own messages alone, and its classification is the one its
   own messages would get in a run of their own. *)
C18_Isolated ==
  \A r \in Reqs :
    scope_type[r] = "http"
      => /\ response_started[r] = HasType(emitted[r], StartType)
         /\ body_sent[r] = HasType(emitted[r], BodyType)
         /\ pc[r] = "done" => Classification(r) = ClassOf(Obs(r))

(* Two requests inside send at the same time, one after a start only and
   one after a body only. *)
C18_Witness ==
  \E r, q \in Reqs :
    /\ pc[r] = "in_send" /\ pc[q] = "in_send"
    /\ TypesOf(emitted[r]) = <<StartType>>
    /\ TypesOf(emitted[q]) = <<BodyType>>
    /\ response_started[r] /\ ~body_sent[r]
    /\ body_sent[q] /\ ~response_started[q]

(* The request's latest message, the one the transport's send was last
   called with. *)
LastMsg(r) == emitted[r][Len(emitted[r])]

(* C20: a message whose forwarding raised is recorded all the same.  When
   the send of a request's only body raises and the app then ends, the
   request is classified Clean; when the send of its start raises, the
   start counts as response_started and the request ends as Violation. *)
C20_RecordedBeforeForward ==
  \A r \in Reqs :
    (scope_type[r] = "http" /\ last_send[r] = "raised")
      => /\ pc[r] \in {"app", "done"}
         /\ LastMsg(r).type = BodyType => body_sent[r]
         /\ LastMsg(r).type = StartType => response_started[r]
         /\ (pc[r] = "done" /\ TypesOf(emitted[r]) = <<StartType, BodyType>>)
              => Classification(r) = "Clean"
         /\ (pc[r] = "done" /\ TypesOf(emitted[r]) = <<StartType>>)
              => Classification(r) = "Violation"

(* A start that was accepted, a body whose send raised, and the app ending
   with that error: Clean. *)
C20_Witness ==
  \E r \in Reqs :
    /\ Ended(r)
    /\ TypesOf(emitted[r]) = <<StartType, BodyType>>
    /\ last_send[r] = "raised"
    /\ app_signal[r] = "error"
    /\ Classification(r) = "Clean"

-----------------------------------------------------------------------------
(* The Disconnect Scenario Runners: quick_disconnect_test and              *)
(* delayed_disconnect_test (src/client.py), ultra_fast_disconnect and      *)
(* rapid_disconnect_during_handshake (src/client_fast_disconnect.py).      *)
(* httpx, the network and the server are the environment: a connect, a     *)
(* header read or a close may succeed or raise an httpx exception.         *)

Variants == {"quick", "delayed", "ultra", "rapid"}

(* The delay_ms values main() passes to delayed_disconnect_test. *)
DelaysMs == {50, 100, 200}

(* Exceptions httpx raises; all are subclasses of Exception. *)
HttpErrors == {"ReadTimeout", "ConnectError", "RemoteProtocolError"}

Info(text) == [level |-> "info", text |-> text]
Error(text) == [level |-> "error", text |-> text]

(* The three logger.info lines every runner starts with. *)
Banner(v) == <<Info("===="), Info("TEST " \o v), Info("====")>>

(* One runner is called, with its arguments. *)
RunnerInit ==
  /\ rn_variant \in Variants
  /\ rn_delay \in DelaysMs \cup {0}
  /\ (rn_variant = "delayed") = (rn_delay # 0)
  /\ rn_pc = "start"
  /\ rn_log = <<>>
  /\ rn_out = "none"
  /\ rn_exc = "none"
  /\ task = "none"
  /\ task_exc = "none"
  /\ task_cancels = 0

(* The runner up to its first await: the banner, the payload, and either
   the request (quick, delayed, rapid) or the creation of the request task
   (ultra). *)
RunnerBegin ==
  /\ rn_pc = "start"
  /\ IF rn_variant = "ultra"
       THEN /\ rn_log' = rn_log \o Banner(rn_variant)
            /\ task' = "created"
            /\ rn_pc' = "waiting"
       ELSE /\ rn_log' = rn_log \o Banner(rn_variant) \o
                 <<Info(IF rn_variant = "rapid"
                          THEN "Opening streaming connection..."
                          ELSE "Sending POST request with SSE Accept header...")>>
            /\ task' = task
            /\ rn_pc' = "connecting"
  /\ UNCHANGED <<rn_variant, rn_delay, rn_out, rn_exc, task_exc,
                 task_cancels>>

(* client.stream(...) entered, or client.send(request, stream=True)
   returned: the response headers are there. *)
HeadersArrive ==
  /\ rn_pc = "connecting"
  /\ rn_log' = rn_log \o
       (IF rn_variant = "quick"
          THEN <<Info("Response status"), Info("Response headers"),
                 Info("Closing connection immediately without reading events...")>>
          ELSE IF rn_variant = "delayed"
            THEN <<Info("Response status")>>
            ELSE <<Info("Response started")>>)
  /\ rn_pc' = (IF rn_variant = "delayed" THEN "sleeping" ELSE "closing")
  /\ UNCHANGED <<rn_variant, rn_delay, rn_out, rn_exc, task, task_exc,
                 task_cancels>>

(* await asyncio.sleep(delay_ms / 1000.0) is over. *)
SleepDone ==
  /\ rn_pc = "sleeping"
  /\ rn_log' = Append(rn_log, Info("Waited, now closing without reading..."))
  /\ rn_pc' = "closing"
  /\ UNCHANGED <<rn_variant, rn_delay, rn_out, rn_exc, task, task_exc,
                 task_cancels>>

(* The response is closed without a byte of body read: the stream context
   is left, or response.aclose() returns. *)
CloseReturns ==
  /\ rn_pc = "closing"
  /\ rn_log' = (IF rn_variant = "rapid"
                  THEN Append(rn_log, Info("Closed response immediately"))
                  ELSE rn_log)
  /\ rn_pc' = "after_try"
  /\ UNCHANGED <<rn_variant, rn_delay, rn_out, rn_exc, task, task_exc,
                 task_cancels>>

(* Variant: ReadTimeout has no clause of its own and falls into
   `except Exception`. *)
HandlerRecordsNoTimeoutClause(v, e) == <<Error("Error: " \o e)>>

(* The except clauses of quick, delayed and rapid: httpx.ReadTimeout is
   logged as information by quick and delayed; everything else, and
   everything in rapid, is logged as an error. *)
HandlerRecords(v, e) ==
  IF e = "ReadTimeout" /\ v = "quick"
    THEN <<Info("Timeout occurred (expected)")>>
    ELSE IF e = "ReadTimeout" /\ v = "delayed"
      THEN <<Info("Timeout occurred")>>
      ELSE <<Error("Error: " \o e)>>

(* The request or the close raises e inside the try block. *)
RequestRaises(e) ==
  /\ rn_pc \in {"connecting", "closing"}
  /\ rn_exc' = e
  /\ rn_log' = rn_log \o HandlerRecords(rn_variant, e)
  /\ rn_pc' = "after_try"
  /\ UNCHANGED <<rn_variant, rn_delay, rn_out, task, task_exc, task_cancels>>

(* After the try statement: the AsyncClient is left, the last lines are
   logged and the runner returns. *)
RunnerEnd ==
  /\ rn_pc = "after_try"
  /\ rn_log' = rn_log \o
       (IF rn_variant = "rapid"
          THEN <<Info("")>>
          ELSE <<Info("Connection closed"), Info("")>>)
  /\ rn_out' = "return"
  /\ rn_pc' = "done"
  /\ UNCHANGED <<rn_variant, rn_delay, rn_exc, task, task_exc, task_cancels>>

-----------------------------------------------------------------------------
(* ultra_fast_disconnect: the request runs in a task of its own,
   make_request, which the runner awaits for 1 ms. *)

TaskRunning == task \in {"created", "connecting", "streaming"}
TaskFinished == task \in {"done_ok", "done_exc", "cancelled"}

(* make_request up to its request: the task gets to run. *)
TaskStarts ==
  /\ task = "created"
  /\ task' = "connecting"
  /\ rn_log' = Append(rn_log, Info("Starting SSE streaming request..."))
  /\ UNCHANGED <<rn_variant, rn_delay, rn_pc, rn_out, rn_exc, task_exc,
                 task_cancels>>

(* make_request has the response and starts to read it. *)
TaskStreams ==
  /\ task = "connecting"
  /\ task' = "streaming"
  /\ rn_log' = rn_log \o <<Info("Got response"), Info("About to be cancelled...")>>
  /\ UNCHANGED <<rn_variant, rn_delay, rn_pc, rn_out, rn_exc, task_exc,
                 task_cancels>>

(* The server ends the stream: make_request returns. *)
TaskReturns ==
  /\ task = "streaming"
  /\ task' = "done_ok"
  /\ UNCHANGED <<rn_variant, rn_delay, rn_pc, rn_log, rn_out, rn_exc,
                 task_exc, task_cancels>>

(* The request or the read raises e: make_request has no try, the task
   ends with e. *)
TaskRaises(e) ==
  /\ task \in {"connecting", "streaming"}
  /\ task' = "done_exc"
  /\ task_exc' = e
  /\ UNCHANGED <<rn_variant, rn_delay, rn_pc, rn_log, rn_out, rn_exc,
                 task_cancels>>

(* A requested cancellation is delivered: the task ends cancelled. *)
TaskCancelled ==
  /\ task = "cancelling"
  /\ task' = "cancelled"
  /\ UNCHANGED <<rn_variant, rn_delay, rn_pc, rn_log, rn_out, rn_exc,
                 task_exc, task_cancels>>

(* wait_for returns: the task returned within the wait.  The runner logs
   its last lines and returns. *)
WaitReturns ==
  /\ rn_pc = "waiting"
  /\ task = "done_ok"
  /\ rn_log' = rn_log \o <<Info("Connection forcibly closed"), Info("")>>
  /\ rn_out' = "return"
  /\ rn_pc' = "done"
  /\ UNCHANGED <<rn_variant, rn_delay, rn_exc, task, task_exc, task_cancels>>

(* wait_for raises what the task raised within the wait.  The only except
   clause is for asyncio.TimeoutError: the exception leaves the runner. *)
WaitRaises ==
  /\ rn_pc = "waiting"
  /\ task = "done_exc"
  /\ rn_exc' = task_exc
  /\ rn_out' = "raise"
  /\ rn_pc' = "done"
  /\ UNCHANGED <<rn_variant, rn_delay, rn_log, task, task_exc, task_cancels>>

(* The 1 ms are over with the task still running: wait_for cancels it. *)
WaitTimeout ==
  /\ rn_pc = "waiting"
  /\ TaskRunning
  /\ task' = "cancelling"
  /\ task_cancels' = task_cancels + 1
  /\ rn_pc' = "timing_out"
  /\ UNCHANGED <<rn_variant, rn_delay, rn_log, rn_out, rn_exc, task_exc>>

(* The shape shared by TimeoutCaught and its variant. *)
TimeoutCaughtThen(awaits) ==
  /\ rn_pc = "timing_out"
  /\ task \in {"cancelling", "cancelled"}
  /\ task_cancels' = (IF task = "cancelling" THEN task_cancels + 1
                      ELSE task_cancels)
  /\ IF awaits
       THEN /\ rn_log' = Append(rn_log,
                 Info("Timeout reached, cancelling request task..."))
            /\ rn_pc' = "awaiting_task"
            /\ rn_out' = rn_out
       ELSE /\ rn_log' = rn_log \o
                 <<Info("Timeout reached, cancelling request task..."),
                   Info("Connection forcibly closed"), Info("")>>
            /\ rn_pc' = "done"
            /\ rn_out' = "return"
  /\ UNCHANGED <<rn_variant, rn_delay, rn_exc, task, task_exc>>

(* Variant: task.cancel() is not followed by await task. *)
TimeoutCaughtNoAwait == TimeoutCaughtThen(FALSE)

(* wait_for raises TimeoutError, with the task cancelled or, where wait_for
   does not wait for it, still being cancelled.  except TimeoutError: log,
   task.cancel() (which asks again only if the task is not done), then
   await task. *)
TimeoutCaught == TimeoutCaughtThen(TRUE)

(* await task raises CancelledError once the task has ended cancelled; it
   is caught and logged, the last lines are logged and the runner
   returns. *)
AwaitTaskDone ==
  /\ rn_pc = "awaiting_task"
  /\ task = "cancelled"
  /\ rn_log' = rn_log \o <<Info("Task cancelled successfully"),
                           Info("Connection forcibly closed"), Info("")>>
  /\ rn_out' = "return"
  /\ rn_pc' = "done"
  /\ UNCHANGED <<rn_variant, rn_delay, rn_exc, task, task_exc, task_cancels>>

(* The server side, the burst and the scenario stay at rest. *)
RunnerFrame == UNCHANGED <<vars, bu_vars, sc_vars>>

RunnerNext ==
  \/ RunnerBegin /\ RunnerFrame
  \/ HeadersArrive /\ RunnerFrame
  \/ SleepDone /\ RunnerFrame
  \/ CloseReturns /\ RunnerFrame
  \/ \E e \in HttpErrors : RequestRaises(e) /\ RunnerFrame
  \/ RunnerEnd /\ RunnerFrame
  \/ TaskStarts /\ RunnerFrame
  \/ TaskStreams /\ RunnerFrame
  \/ TaskReturns /\ RunnerFrame
  \/ \E e \in HttpErrors : TaskRaises(e) /\ RunnerFrame
  \/ TaskCancelled /\ RunnerFrame
  \/ WaitReturns /\ RunnerFrame
  \/ WaitRaises /\ RunnerFrame
  \/ WaitTimeout /\ RunnerFrame
  \/ TimeoutCaught /\ RunnerFrame
  \/ AwaitTaskDone /\ RunnerFrame

(* One runner is called; the server side is not looked at. *)
RunnerSpecInit == Init /\ RunnerInit /\ BurstIdle /\ ScenarioIdle

(* One runner against any server. *)
SpecRunner == RunnerSpecInit /\ [][RunnerNext]_all_vars

-----------------------------------------------------------------------------
(* The runner logged rec. *)
Logged(rec) == \E i \in 1..Len(rn_log) : rn_log[i] = rec

(* The runner logged something at level error. *)
LoggedAnError == \E i \in 1..Len(rn_log) : rn_log[i].level = "error"

(* C11 as stated: in every runner an exception raised while connecting or
   streaming is caught and logged and the runner returns; none leaves the
   runner. *)
C11_OtherExceptionsCaught ==
  (rn_pc = "done" /\ rn_exc \in HttpErrors)
    => /\ rn_out = "return"
       /\ \/ Logged(Error("Error: " \o rn_exc))
          \/ rn_exc = "ReadTimeout" /\ rn_variant \in {"quick", "delayed"}

(* C12: the expected end of each runner is no failure.  A ReadTimeout in
   quick_disconnect_test, the expiry of the wait and the cancelled task in
   ultra_fast_disconnect, and the close in delayed_disconnect_test and
   rapid_disconnect_during_handshake are each logged as information, with
   no error record, and the runner returns. *)
C12_ExpectedSignalIsNoFailure ==
  rn_pc = "done" =>
    /\ (rn_variant = "quick" /\ rn_exc = "ReadTimeout")
         => /\ rn_out = "return"
            /\ ~LoggedAnError
            /\ Logged(Info("Timeout occurred (expected)"))
    /\ (rn_variant = "ultra" /\ task = "cancelled")
         => /\ rn_out = "return"
            /\ ~LoggedAnError
            /\ Logged(Info("Timeout reached, cancelling request task..."))
            /\ Logged(Info("Task cancelled successfully"))
    /\ (rn_variant = "delayed" /\ rn_exc = "none")
         => /\ rn_out = "return"
            /\ ~LoggedAnError
            /\ Logged(Info("Waited, now closing without reading..."))
    /\ (rn_variant = "rapid" /\ rn_exc = "none")
         => /\ rn_out = "return"
            /\ ~LoggedAnError
            /\ Logged(Info("Closed response immediately"))

(* quick_disconnect_test ended after a ReadTimeout. *)
C12_Witness ==
  /\ rn_variant = "quick"
  /\ rn_pc = "done"
  /\ rn_exc = "ReadTimeout"
  /\ rn_out = "return"

(* C19: ultra_fast_disconnect never ends, and never logs 'Connection
   forcibly closed', with its request task unfinished; a task that was
   cancelled by the expiry of the wait has been awaited to its end; a task
   that ended within the wait was never asked to cancel. *)
C19_TaskFinishedAtEnd ==
  rn_variant = "ultra" =>
    /\ rn_pc = "done" => TaskFinished
    /\ Logged(Info("Connection forcibly closed")) => TaskFinished
    /\ (rn_pc = "done" /\ task = "cancelled")
         => (task_cancels >= 1 /\ Logged(Info("Task cancelled successfully")))
    /\ (rn_pc = "done" /\ task \in {"done_ok", "done_exc"})
         => task_cancels = 0

(* The wait expired, the task was asked twice to cancel (by wait_for and by
   the runner) and the runner returned after the task had ended. *)
C19_Witness ==
  /\ rn_variant = "ultra"
  /\ rn_pc = "done"
  /\ rn_out = "return"
  /\ task = "cancelled"
  /\ task_cancels = 2

-----------------------------------------------------------------------------
(* The burst of main() in src/client_fast_disconnect.py: ten calls of      *)
(* ultra_fast_disconnect handed to asyncio.gather.  An instance is seen    *)
(* from outside: it runs, and it ends by returning or by raising.          *)

(* for i in range(10) *)
BurstSize == 10

Instances == 1..BurstSize

(* How a run of ultra_fast_disconnect can end. *)
Outcomes == {"returned", "raised"}

(* The loop: ten coroutine objects, none of them started. *)
BurstCreate ==
  /\ inst = <<>>
  /\ gather = "none"
  /\ inst' = [i \in Instances |-> "created"]
  /\ UNCHANGED <<gather, results>>

(* asyncio.gather called with the ten coroutines: every coroutine is wrapped in a task of
   its own and scheduled; main waits. *)
GatherCalled ==
  /\ inst # <<>>
  /\ gather = "none"
  /\ inst' = [i \in Instances |-> "running"]
  /\ gather' = "waiting"
  /\ UNCHANGED results

(* One instance ends, by returning or by raising. *)
InstanceEnds(i, out) ==
  /\ inst # <<>>
  /\ inst[i] = "running"
  /\ inst' = [inst EXCEPT ![i] = out]
  /\ UNCHANGED <<gather, results>>

(* The entry gather puts in its list for an instance. *)
ResultOf(st) == IF st = "returned" THEN "None" ELSE "exception"

(* The shape shared by GatherEnds and its variant: with collect, gather
   waits for every instance and returns the list; without, the first
   exception is raised to main at once. *)
GatherEndsWhen(collect) ==
  /\ gather = "waiting"
  /\ IF collect
       THEN /\ \A i \in Instances : inst[i] \in Outcomes
            /\ gather' = "returned"
            /\ results' = [i \in Instances |-> ResultOf(inst[i])]
       ELSE \/ /\ \A i \in Instances : inst[i] = "returned"
               /\ gather' = "returned"
               /\ results' = [i \in Instances |-> ResultOf(inst[i])]
            \/ /\ \E i \in Instances : inst[i] = "raised"
               /\ gather' = "raised"
               /\ results' = results
  /\ UNCHANGED inst

(* Variant: gather without return_exceptions. *)
GatherEndsFailFast == GatherEndsWhen(FALSE)

(* await asyncio.gather(..., return_exceptions=True) *)
GatherEnds == GatherEndsWhen(TRUE)

BurstFrame == UNCHANGED <<vars, rn_vars, sc_vars>>

BurstNext ==
  \/ BurstCreate /\ BurstFrame
  \/ GatherCalled /\ BurstFrame
  \/ \E i \in Instances : \E out \in Outcomes :
       InstanceEnds(i, out) /\ BurstFrame
  \/ GatherEnds /\ BurstFrame

(* The event loop runs every task that can run, and every run of
   ultra_fast_disconnect ends (its wait is bounded by 1 ms). *)
SpecBurst == ServerInit /\ [][BurstNext]_all_vars /\ WF_all_vars(BurstNext)

(* While main waits, nothing is lost and nothing is cut short. *)
BurstSafe ==
  /\ gather # "raised"
  /\ gather = "waiting"
       => \A i \in Instances : inst[i] \in {"running"} \cup Outcomes
  /\ gather = "returned"
       => /\ \A i \in Instances : inst[i] \in Outcomes
          /\ Len(results) = BurstSize
          /\ \A i \in Instances : results[i] = ResultOf(inst[i])

(* C13: the ten instances all run to their end and gather returns, with a
   list of exactly ten entries, one per instance in order; an instance
   that raises is an entry of the list, it neither ends the wait nor stops
   another instance. *)
C13_AllTenCollected == []BurstSafe /\ <>(gather = "returned")

(* gather returned although the first instance raised; the other nine
   returned. *)
C13_Witness ==
  /\ gather = "returned"
  /\ Len(results) = BurstSize
  /\ inst[1] = "raised"
  /\ results[1] = "exception"
  /\ \A i \in 2..BurstSize : inst[i] = "returned" /\ results[i] = "None"

-----------------------------------------------------------------------------
(* One request end to end: a client that disconnects the way the runners   *)
(* of src/client.py do, the middleware of src/server.py, and a handler     *)
(* behind it.  The clock counts ms.  The ASGI server and the framework     *)
(* between the middleware and the handler are the environment: they send   *)
(* the start, pass on the handler's first event, and end the app call when *)
(* they choose to.  Request 1 is the client's; request 2 comes later.      *)

(* await asyncio.sleep(2), in ms *)
SlowMs == 2000

(* timeout=1.0, in ms *)
QuickTimeoutMs == 1000

(* timeout=5.0, in ms *)
DelayedTimeoutMs == 5000

(* The longest delay_ms main() passes. *)
LongestDelayMs == 200

(* Close at once after the headers (quick_disconnect_test), or after
   delay_ms (delayed_disconnect_test). *)
Strategies == {"immediate", "delayed"}

(* A handler that answers at once (get_greeting) and slow_operation. *)
Handlers == {"fast", "slow"}

(* Variant: slow_operation does not sleep. *)
HandlerMsNoSleep(h) == 0

(* The time a handler takes before its result is ready. *)
HandlerMs(h) == IF h = "slow" THEN SlowMs ELSE 0

(* The timeout the client gives its request. *)
TimeoutMs(st) ==
  IF st = "immediate" THEN QuickTimeoutMs ELSE DelayedTimeoutMs

StartMsg == [type |-> StartType, more_body |-> FALSE]

(* An event of the stream: a body chunk with more to come. *)
EventMsg == [type |-> BodyType, more_body |-> TRUE]

(* The client has sent its request. *)
ScenarioInit ==
  /\ sc_strategy \in Strategies
  /\ sc_delay \in DelaysMs \cup {0}
  /\ (sc_strategy = "delayed") = (sc_delay # 0)
  /\ sc_handler \in Handlers
  /\ now = 0
  /\ cl_pc = "connecting"
  /\ cl_how = "none"
  /\ cl_close_at = 0
  /\ body_due = 0

(* The request reaches the middleware; the handler starts. *)
ScArrive ==
  /\ Call(1, "http")
  /\ body_due' = now + HandlerMs(sc_handler)
  /\ UNCHANGED <<sc_strategy, sc_delay, sc_handler, now, cl_pc, cl_how,
                 cl_close_at>>

(* The response starts. *)
ScStart ==
  /\ emitted[1] = <<>>
  /\ TrackingSend(1, StartMsg)
  /\ UNCHANGED sc_vars

(* The handler's result is ready and goes out as the first event. *)
ScEvent ==
  /\ now >= body_due
  /\ TypesOf(emitted[1]) = <<StartType>>
  /\ TrackingSend(1, EventMsg)
  /\ UNCHANGED sc_vars

(* The transport's send returns. *)
ScSendReturn ==
  /\ SendReturn(1)
  /\ UNCHANGED sc_vars

(* The transport's send raises: the client is gone. *)
ScSendRaise ==
  /\ cl_pc = "closed"
  /\ SendRaise(1)
  /\ UNCHANGED sc_vars

(* The app call ends: the response is complete, or the app gives up, or
   the server ends it. *)
ScAppEnds(sig) ==
  /\ AppExit(1, sig)
  /\ UNCHANGED sc_vars

(* The client has the status line and the headers: client.stream enters
   its block. *)
ClientHeaders ==
  /\ cl_pc = "connecting"
  /\ HasType(send_calls[1], StartType)
  /\ cl_pc' = "got_headers"
  /\ cl_close_at' = now + sc_delay
  /\ UNCHANGED <<sc_strategy, sc_delay, sc_handler, now, cl_how, body_due>>

(* The block of client.stream is left without a read: the connection is
   closed. *)
ClientClose ==
  /\ cl_pc = "got_headers"
  /\ now >= cl_close_at
  /\ cl_pc' = "closed"
  /\ cl_how' = "close"
  /\ UNCHANGED <<sc_strategy, sc_delay, sc_handler, now, cl_close_at,
                 body_due>>

(* No headers within the timeout: httpx.ReadTimeout, the connection is
   closed. *)
ClientTimeout ==
  /\ cl_pc = "connecting"
  /\ now >= TimeoutMs(sc_strategy)
  /\ cl_pc' = "closed"
  /\ cl_how' = "timeout"
  /\ UNCHANGED <<sc_strategy, sc_delay, sc_handler, now, cl_close_at,
                 body_due>>

(* The times ahead at which something becomes due. *)
Deadlines ==
  (IF pc[1] \in {"app", "in_send"} /\ ~HasType(emitted[1], BodyType)
        /\ body_due > now
     THEN {body_due} ELSE {})
  \cup (IF cl_pc = "got_headers" /\ cl_close_at > now
          THEN {cl_close_at} ELSE {})
  \cup (IF cl_pc = "connecting" /\ TimeoutMs(sc_strategy) > now
          THEN {TimeoutMs(sc_strategy)} ELSE {})

(* The client's sleep or timeout is over. *)
ClientDue ==
  \/ cl_pc = "got_headers" /\ now >= cl_close_at
  \/ cl_pc = "connecting" /\ now >= TimeoutMs(sc_strategy)

Earliest(S) == CHOOSE x \in S : \A y \in S : x <= y

(* Time passes, up to the next time something is due.  The client acts
   when its time has come; the server side may be late. *)
Tick ==
  /\ ~ClientDue
  /\ Deadlines # {}
  /\ now' = Earliest(Deadlines)
  /\ UNCHANGED <<sc_strategy, sc_delay, sc_handler, cl_pc, cl_how,
                 cl_close_at, body_due>>

(* A later request, after the client's request has ended. *)
LaterCall ==
  /\ pc[1] = "done"
  /\ Call(2, "http")
  /\ UNCHANGED sc_vars

LaterSend(m) ==
  /\ pc[1] = "done"
  /\ TrackingSend(2, m)
  /\ UNCHANGED sc_vars

LaterSendReturn ==
  /\ pc[1] = "done"
  /\ SendReturn(2)
  /\ UNCHANGED sc_vars

LaterAppEnds(sig) ==
  /\ pc[1] = "done"
  /\ AppExit(2, sig)
  /\ UNCHANGED sc_vars

ScenarioFrame == UNCHANGED <<rn_vars, bu_vars>>

ServerAtRest == UNCHANGED vars

ScenarioNext ==
  \/ ScArrive /\ ScenarioFrame
  \/ ScStart /\ ScenarioFrame
  \/ ScEvent /\ ScenarioFrame
  \/ ScSendReturn /\ ScenarioFrame
  \/ ScSendRaise /\ ScenarioFrame
  \/ \E sig \in Signals : ScAppEnds(sig) /\ ScenarioFrame
  \/ ClientHeaders /\ ServerAtRest /\ ScenarioFrame
  \/ ClientClose /\ ServerAtRest /\ ScenarioFrame
  \/ ClientTimeout /\ ServerAtRest /\ ScenarioFrame
  \/ Tick /\ ServerAtRest /\ ScenarioFrame
  \/ LaterCall /\ ScenarioFrame
  \/ \E m \in Messages : LaterSend(m) /\ ScenarioFrame
  \/ LaterSendReturn /\ ScenarioFrame
  \/ \E sig \in Signals : LaterAppEnds(sig) /\ ScenarioFrame

ScenarioSpecInit == Init /\ RunnerIdle /\ BurstIdle /\ ScenarioInit

SpecScenario == ScenarioSpecInit /\ [][ScenarioNext]_all_vars

-----------------------------------------------------------------------------
(* The delayed client with the longest delay met slow_operation, read the
   headers and closed less than 2 seconds after it had sent its request,
   so before the handler's sleep could be over; the request has ended. *)
DelayedAgainstSlow ==
  /\ sc_strategy = "delayed"
  /\ sc_delay = LongestDelayMs
  /\ sc_handler = "slow"
  /\ cl_how = "close"
  /\ cl_close_at < SlowMs
  /\ Ended(1)

ImmediateAgainstFast ==
  /\ sc_strategy = "immediate"
  /\ sc_handler = "fast"

(* C15 as stated: an immediate disconnect against a handler with no delay
   is classified Idle or Violation, never Clean, whatever the order of the
   client's and the server's steps. *)
C15_Original ==
  (ImmediateAgainstFast /\ Ended(1))
    => Classification(1) \in {"Idle", "Violation"}

(* C15 amended: an immediate disconnect against a handler with no delay is
   classified by what was sent before the app call ended: Idle with no
   start, Violation with a start and no body, Clean when the first event
   went out before the end, which the client's close does not prevent; it
   is not Idle once the client has had the headers.  The middleware passes
   on the way the app call ended and adds no failure of its own, and a
   later request is tracked and classified as usual. *)
C15_ClassifiedByWhatWasSent ==
  ImmediateAgainstFast =>
    /\ Ended(1) => /\ Classification(1) = ClassOf(Obs(1))
                   /\ out_signal[1] = app_signal[1]
                   /\ classify_count[1] = 1
                   /\ cl_how = "close" => Classification(1) # "Idle"
    /\ Ended(2) => /\ pc[1] = "done"
                   /\ Classification(2) = ClassOf(Obs(2))
                   /\ out_signal[2] = app_signal[2]

(* The client closed right after the headers, the first event had already
   gone out, the request ended Clean; a later request was served. *)
C15_Witness ==
  /\ ImmediateAgainstFast
  /\ Ended(1)
  /\ cl_how = "close"
  /\ now = 0
  /\ Classification(1) = "Clean"
  /\ Ended(2)
  /\ app_signal[2] = "return"
  /\ Classification(2) = "Clean"

=============================================================================
